---- MODULE Spec2Model ----
(***************************************************************************)
(* Model of the awesome-list catalog core: the slugger, the catalog        *)
(* builder (parseAwesomeList), the KV-backed store with its normalizer,    *)
(* and the sync cycle of /api/admin/sync.                                  *)
(*                                                                         *)
(* Strings are sequences of one-character strings, so that trimming,       *)
(* lower-casing and slugging are computed character by character.          *)
(***************************************************************************)
EXTENDS Integers, Sequences, FiniteSets, TLC

(***************************************************************************)
(* Bounds of the model.                                                    *)
(***************************************************************************)
MaxNodes == 4
MaxVersion == 2
MaxText == 5

(***************************************************************************)
(* Strings.                                                                *)
(***************************************************************************)
Undefined == <<"undefined">>

IsSpace(c) == c = " "

IsWordChar(c) == c \in {"a", "b", "d", "e", "t", "u", "x", "y", "A", "B", "1", "2", "_"}

ToLowerChar(c) == IF c = "A" THEN "a" ELSE IF c = "B" THEN "b" ELSE c

ToLowerCase(s) == [i \in 1..Len(s) |-> ToLowerChar(s[i])]

RECURSIVE TrimStart(_)
TrimStart(s) ==
  IF s # <<>> /\ IsSpace(Head(s)) THEN TrimStart(Tail(s)) ELSE s

RECURSIVE TrimEnd(_)
TrimEnd(s) ==
  IF s # <<>> /\ IsSpace(s[Len(s)]) THEN TrimEnd(SubSeq(s, 1, Len(s) - 1)) ELSE s

Trim(s) == TrimEnd(TrimStart(s))

\* .replace(/\s+/g, "-"): every maximal run of whitespace becomes one hyphen
RECURSIVE ReplaceSpaceRuns(_)
ReplaceSpaceRuns(s) ==
  IF s = <<>> THEN <<>>
  ELSE IF IsSpace(Head(s)) THEN <<"-">> \o ReplaceSpaceRuns(TrimStart(s))
  ELSE <<Head(s)>> \o ReplaceSpaceRuns(Tail(s))

\* .replace(/[^\w\-]+/g, ""): drop every character that is neither a word
\* character nor a hyphen
RECURSIVE StripNonWord(_)
StripNonWord(s) ==
  IF s = <<>> THEN <<>>
  ELSE IF IsWordChar(Head(s)) \/ Head(s) = "-" THEN <<Head(s)>> \o StripNonWord(Tail(s))
  ELSE StripNonWord(Tail(s))

RECURSIVE TrimHyphensStart(_)
TrimHyphensStart(s) ==
  IF s # <<>> /\ Head(s) = "-" THEN TrimHyphensStart(Tail(s)) ELSE s

RECURSIVE TrimHyphensEnd(_)
TrimHyphensEnd(s) ==
  IF s # <<>> /\ s[Len(s)] = "-" THEN TrimHyphensEnd(SubSeq(s, 1, Len(s) - 1)) ELSE s

\* .replace(/\-\-+/g, "-"): every maximal run of two or more hyphens becomes one
RECURSIVE CollapseHyphens(_)
CollapseHyphens(s) ==
  IF s = <<>> THEN <<>>
  ELSE IF Head(s) = "-" THEN <<"-">> \o CollapseHyphens(TrimHyphensStart(s))
  ELSE <<Head(s)>> \o CollapseHyphens(Tail(s))

\* a slugger that collapses the hyphen runs before it strips
slugifyCollapseFirst(text) ==
  TrimHyphensEnd(TrimHyphensStart(StripNonWord(CollapseHyphens(
    ReplaceSpaceRuns(ToLowerCase(text))))))

slugify(text) ==
  TrimHyphensEnd(TrimHyphensStart(CollapseHyphens(StripNonWord(
    ReplaceSpaceRuns(ToLowerCase(text))))))

(***************************************************************************)
(* The markdown AST (mdast) as the builder reads it.  A heading's and a    *)
(* link's children are text nodes, given by their values; a list's         *)
(* children are list items; a list item's children are paragraphs; a       *)
(* paragraph's children are inline nodes (text or link).                   *)
(***************************************************************************)
TextNode(value) == [type |-> "text", url |-> <<>>, children |-> <<value>>]

LinkNode(title, url) == [type |-> "link", url |-> url, children |-> <<title>>]

Paragraph(inlines) == [type |-> "paragraph", children |-> inlines]

ListItem(paragraphs) == [type |-> "listItem", children |-> paragraphs]

HeadingNode(depth, text) == [type |-> "heading", depth |-> depth, children |-> <<text>>]

ListNode(items) == [type |-> "list", depth |-> 0, children |-> items]

ParagraphNode(text) == [type |-> "paragraph", depth |-> 0, children |-> <<text>>]

\* the text values below a node, joined
RECURSIVE JoinText(_)
JoinText(values) ==
  IF values = <<>> THEN <<>> ELSE Head(values) \o JoinText(Tail(values))

extractText(node) == JoinText(node.children)

RECURSIVE MapExtractTextJoin(_)
MapExtractTextJoin(nodes) ==
  IF nodes = <<>> THEN <<>> ELSE extractText(Head(nodes)) \o MapExtractTextJoin(Tail(nodes))

\* paragraph.children.findIndex(n => n.type === "link"), 1-based, 0 when absent
RECURSIVE FindLinkFrom(_, _)
FindLinkFrom(inlines, i) ==
  IF i > Len(inlines) THEN 0
  ELSE IF inlines[i].type = "link" THEN i
  ELSE FindLinkFrom(inlines, i + 1)

FindLink(inlines) == FindLinkFrom(inlines, 1)

IsDash(c) == c = "-"

\* .replace(/^\s*[-]\s*/, ""): a leading separator with the whitespace around it
StripSeparator(s) ==
  LET t == TrimStart(s) IN
  IF t # <<>> /\ IsDash(Head(t)) THEN TrimStart(Tail(t)) ELSE s

\* the item built from a link and the inline nodes after it
MakeItem(link, descNodes, categoryTitle, subcategoryTitle) ==
  LET description == Trim(StripSeparator(MapExtractTextJoin(descNodes))) IN
  [title |-> Trim(MapExtractTextJoin(<<link>>)),
   url |-> link.url,
   description |-> IF description # <<>> THEN description ELSE Undefined,
   category |-> categoryTitle,
   subcategory |-> subcategoryTitle]

\* parseListItem without the url test
parseListItemNoUrlCheck(item, categoryTitle, subcategoryTitle) ==
  IF item.children = <<>> \/ item.children[1].children = <<>> THEN <<>>
  ELSE LET inlines == item.children[1].children
           k == FindLink(inlines) IN
       IF k = 0 THEN <<>>
       ELSE IF Trim(extractText(inlines[k])) = <<>> THEN <<>>
       ELSE <<MakeItem(inlines[k], SubSeq(inlines, k + 1, Len(inlines)),
                       categoryTitle, subcategoryTitle)>>

\* parseListItem: <<>> for null, <<item>> for an item
parseListItem(item, categoryTitle, subcategoryTitle) ==
  IF item.children = <<>> \/ item.children[1].children = <<>> THEN <<>>
  ELSE LET inlines == item.children[1].children
           k == FindLink(inlines) IN
       IF k = 0 \/ inlines[k].url = <<>> THEN <<>>
       ELSE IF Trim(extractText(inlines[k])) = <<>> THEN <<>>
       ELSE <<MakeItem(inlines[k], SubSeq(inlines, k + 1, Len(inlines)),
                       categoryTitle, subcategoryTitle)>>

(***************************************************************************)
(* The builder.  Its state b is [tree, list, currentCategory,              *)
(* currentSubcategory]; the two pointers are positions, currentCategory in *)
(* tree and currentSubcategory in the children of the current category,    *)
(* with 0 for null.                                                        *)
(***************************************************************************)
NewCategory(title, slug) == [title |-> title, slug |-> slug, items |-> <<>>, children |-> <<>>]

InitBuilder == [tree |-> <<>>, list |-> <<>>, currentCategory |-> 0, currentSubcategory |-> 0]

\* a builder that never hands the subcategory to parseListItem
SubTitleNone(b) == Undefined

SubTitle(b) ==
  IF b.currentSubcategory = 0 THEN Undefined
  ELSE b.tree[b.currentCategory].children[b.currentSubcategory].title

\* target.items.push(parsed) with target = currentSubcategory ?? currentCategory
PushToTarget(b, parsed) ==
  LET c == b.currentCategory
      s == b.currentSubcategory IN
  IF s = 0
  THEN [b.tree EXCEPT ![c].items = Append(@, parsed)]
  ELSE [b.tree EXCEPT ![c].children[s].items = Append(@, parsed)]

\* a builder that files a subcategory's item under the category as well
PushItemBoth(b, parsed) ==
  LET c == b.currentCategory
      s == b.currentSubcategory IN
  [b EXCEPT !.tree = IF s = 0 THEN PushToTarget(b, parsed)
                     ELSE [PushToTarget(b, parsed) EXCEPT ![c].items = Append(@, parsed)],
            !.list = Append(@, parsed)]

\* a builder that keeps subcategory items out of the flat list
PushItemTopOnly(b, parsed) ==
  [b EXCEPT !.tree = PushToTarget(b, parsed),
            !.list = IF b.currentSubcategory = 0 THEN Append(@, parsed) ELSE @]

\* target.items.push(parsed); list.push(parsed)
PushItem(b, parsed) ==
  [b EXCEPT !.tree = PushToTarget(b, parsed), !.list = Append(@, parsed)]

\* the inner loop over node.children
RECURSIVE ListItemsStep(_, _)
ListItemsStep(b, items) ==
  IF items = <<>> THEN b
  ELSE LET parsed == parseListItem(Head(items), b.tree[b.currentCategory].title, SubTitle(b)) IN
       ListItemsStep(IF parsed = <<>> THEN b ELSE PushItem(b, parsed[1]), Tail(items))

H2Step(b, node) ==
  LET title == Trim(extractText(node)) IN
  IF title = <<>> THEN b
  ELSE [b EXCEPT !.tree = Append(@, NewCategory(title, slugify(title))),
                 !.currentCategory = Len(b.tree) + 1,
                 !.currentSubcategory = 0]

H3Step(b, node) ==
  LET title == Trim(extractText(node))
      c == b.currentCategory IN
  IF title = <<>> THEN b
  ELSE [b EXCEPT
          !.tree[c].children =
             Append(@, NewCategory(title, slugify(b.tree[c].title \o <<"-">> \o title))),
          !.currentSubcategory = Len(b.tree[c].children) + 1]

\* a builder that opens a top-level category for an H3 met before any H2
BuilderStepOrphans(b, node) ==
  IF node.type = "heading" /\ node.depth = 2 THEN H2Step(b, node)
  ELSE IF node.type = "heading" /\ node.depth = 3
       THEN (IF b.currentCategory # 0 THEN H3Step(b, node) ELSE H2Step(b, node))
  ELSE IF node.type = "list" /\ b.currentCategory # 0 THEN ListItemsStep(b, node.children)
  ELSE b

\* one iteration of the loop over ast.children
BuilderStep(b, node) ==
  IF node.type = "heading" /\ node.depth = 2 THEN H2Step(b, node)
  ELSE IF node.type = "heading" /\ node.depth = 3 /\ b.currentCategory # 0 THEN H3Step(b, node)
  ELSE IF node.type = "list" /\ b.currentCategory # 0 THEN ListItemsStep(b, node.children)
  ELSE b

SchemaVersion == 2

\* the value parseAwesomeList returns
MakeCatalog(b, now) ==
  [tree |-> b.tree,
   list |-> b.list,
   meta |-> [updatedAt |-> now, totalItems |-> Len(b.list), version |-> SchemaVersion]]

RECURSIVE BuildFrom(_, _)
BuildFrom(b, nodes) ==
  IF nodes = <<>> THEN b ELSE BuildFrom(BuilderStep(b, Head(nodes)), Tail(nodes))

\* parseAwesomeList on a document whose AST has the children `nodes`
parseAwesomeList(nodes, now) == MakeCatalog(BuildFrom(InitBuilder, nodes), now)

(***************************************************************************)
(* The category pages look a category up by its slug: the first match of   *)
(* a depth-first walk, returned as the path of positions from the root,    *)
(* <<>> for null.                                                          *)
(***************************************************************************)
RECURSIVE FindPathFrom(_, _, _, _)
FindPathFrom(categories, i, slug, path) ==
  IF i > Len(categories) THEN <<>>
  ELSE LET nextPath == Append(path, i) IN
       IF categories[i].slug = slug THEN nextPath
       ELSE LET childPath == FindPathFrom(categories[i].children, 1, slug, nextPath) IN
            IF childPath # <<>> THEN childPath
            ELSE FindPathFrom(categories, i + 1, slug, path)

findCategoryPath(categories, slug) == FindPathFrom(categories, 1, slug, <<>>)

(***************************************************************************)
(* The inputs of the builder: heading texts, list items and lists.         *)
(***************************************************************************)
Str_a == <<"a">>
Str_b == <<"b">>
Url1 == <<"u", "1">>
Url2 == <<"u", "2">>

H2Texts == {<<" ">>, Str_a, <<"A", " ">>, <<"a", "-", "b">>, <<"!">>}

H3Texts == {<<" ">>, <<" ", "b">>, <<"!">>}

\* - [x](u1) - d
ItemWithDescription ==
  ListItem(<<Paragraph(<<LinkNode(<<"x">>, Url1), TextNode(<<" ", "-", " ", "d">>)>>)>>)
\* - [y](u2)
ItemPlain == ListItem(<<Paragraph(<<LinkNode(<<"y">>, Url2)>>)>>)
\* - t
ItemNoLink == ListItem(<<Paragraph(<<TextNode(<<"t">>)>>)>>)
\* - [x]()
ItemNoUrl == ListItem(<<Paragraph(<<LinkNode(<<"x">>, <<>>)>>)>>)
\* - [ ](u1)
ItemNoTitle == ListItem(<<Paragraph(<<LinkNode(<<" ">>, Url1)>>)>>)
\* an empty bullet
ItemEmpty == ListItem(<<>>)
\* - t [b](u2)
ItemLateLink == ListItem(<<Paragraph(<<TextNode(<<"t", " ">>), LinkNode(<<"b">>, Url2)>>)>>)

LinkLists ==
  { <<ItemWithDescription>>,
    <<ItemNoLink, ItemPlain>>,
    <<ItemPlain, ItemNoUrl, ItemWithDescription>>,
    <<ItemEmpty, ItemNoTitle, ItemNoUrl>>,
    <<ItemLateLink, ItemPlain>> }

OtherNodes == {ParagraphNode(<<"t">>), HeadingNode(1, Str_a)}

NoNode == [type |-> "none", depth |-> 0, children |-> <<>>]

Timestamps == {"2023-01-01T00:00:00Z", "2024-06-01T00:00:00Z"}

(***************************************************************************)
(* The KV store and the sync cycle.                                        *)
(***************************************************************************)
Null == <<>>

Procs == {1, 2}

RawEtag(v) == <<"raw", v>>

ApiEtag(v) == <<"api", v>>

\* the AST remark produces for the README at version `content`
parseMarkdown(content) ==
  IF content = 2 THEN <<ListNode(<<ItemWithDescription>>)>>
  ELSE IF content % 2 = 1
       THEN <<HeadingNode(2, Str_a), ListNode(<<ItemWithDescription>>)>>
       ELSE <<HeadingNode(2, Str_a), HeadingNode(3, Str_b), ListNode(<<ItemPlain, ItemWithDescription>>)>>

(***************************************************************************)
(* Decoded JSON values, as kvGet hands them to normalizeCatalog: each      *)
(* value carries its JavaScript type.  The strings of the metadata are     *)
(* TLA+ strings, the strings of items and categories are character         *)
(* sequences.                                                              *)
(***************************************************************************)
JUndefined == [type |-> "undefined"]

JNull == [type |-> "null"]

JNumber(n) == [type |-> "number", num |-> n]

JString(s) == [type |-> "string", str |-> s]

JArray(elems) == [type |-> "array", elems |-> elems]

JObject(props) == [type |-> "object", props |-> props]

\* v[field]: undefined for a property the value does not have
Get(v, field) ==
  IF v.type = "object" /\ field \in DOMAIN v.props THEN v.props[field] ELSE JUndefined

\* typeof v
TypeOf(v) == IF v.type \in {"null", "array"} THEN "object" ELSE v.type

\* the truthiness of v, as !v, && and || read it
Truthy(v) ==
  IF v.type \in {"undefined", "null"} THEN FALSE
  ELSE IF v.type = "number" THEN v.num # 0
  ELSE IF v.type = "string" THEN v.str # ""
  ELSE TRUE

\* Array.isArray(v)
IsArray(v) == v.type = "array"

\* Array.isArray(v) && v.length > 0
IsNonEmptyArray(v) == IsArray(v) /\ Len(v.elems) > 0

\* JSON.stringify leaves out the properties whose value is undefined
StringifyItem(item) ==
  JObject([k \in {f \in DOMAIN item : item[f] # Undefined} |-> JString(item[k])])

RECURSIVE StringifyItems(_)
StringifyItems(items) ==
  IF items = <<>> THEN <<>> ELSE <<StringifyItem(Head(items))>> \o StringifyItems(Tail(items))

RECURSIVE StringifyTree(_)
StringifyTree(cats) ==
  IF cats = <<>> THEN <<>>
  ELSE <<JObject([title |-> JString(Head(cats).title), slug |-> JString(Head(cats).slug),
                  items |-> JArray(StringifyItems(Head(cats).items)),
                  children |-> JArray(StringifyTree(Head(cats).children))])>>
       \o StringifyTree(Tail(cats))

\* JSON.parse(JSON.stringify(catalog)): what kvSetJSON writes and kvGet reads back
StringifyCatalog(catalog) ==
  JObject([tree |-> JArray(StringifyTree(catalog.tree)),
           list |-> JArray(StringifyItems(catalog.list)),
           meta |-> JObject([updatedAt |-> JString(catalog.meta.updatedAt),
                             totalItems |-> JNumber(catalog.meta.totalItems),
                             version |-> JNumber(catalog.meta.version)])])

NoItems == [threw |-> FALSE, out |-> <<>>]

TypeError == [threw |-> TRUE, out |-> <<>>]

\* a walk that visits the children of a category before its own items
RECURSIVE WalkChildrenFirst(_)
WalkChildrenFirst(cats) ==
  IF cats = <<>> THEN NoItems
  ELSE LET c == Head(cats) IN
       IF c.type \in {"null", "undefined"} THEN TypeError
       ELSE LET own == IF IsNonEmptyArray(Get(c, "items")) THEN Get(c, "items").elems ELSE <<>>
                below == IF IsNonEmptyArray(Get(c, "children"))
                         THEN WalkChildrenFirst(Get(c, "children").elems) ELSE NoItems
                rest == WalkChildrenFirst(Tail(cats)) IN
            IF below.threw \/ rest.threw THEN TypeError
            ELSE [threw |-> FALSE, out |-> below.out \o own \o rest.out]

\* walk(cats): the items pushed to out, each category's own items and then
\* those below its children, in order; reading c.items of a null element
\* throws a TypeError
RECURSIVE Walk(_)
Walk(cats) ==
  IF cats = <<>> THEN NoItems
  ELSE LET c == Head(cats) IN
       IF c.type \in {"null", "undefined"} THEN TypeError
       ELSE LET own == IF IsNonEmptyArray(Get(c, "items")) THEN Get(c, "items").elems ELSE <<>>
                below == IF IsNonEmptyArray(Get(c, "children"))
                         THEN Walk(Get(c, "children").elems) ELSE NoItems IN
            IF below.threw THEN TypeError
            ELSE LET rest == Walk(Tail(cats)) IN
                 IF rest.threw THEN TypeError
                 ELSE [threw |-> FALSE, out |-> own \o below.out \o rest.out]

flattenItemsFromTree(tree) ==
  IF ~IsNonEmptyArray(tree) THEN NoItems ELSE Walk(tree.elems)

\* what getCatalog's caller sees when normalizeCatalog throws
Thrown == <<[threw |-> "TypeError"]>>

\* normalizeCatalog on the decoded stored value, at time `now`.  raw is <<>>
\* when the key is missing, <<value>> otherwise; the result is <<>> for null,
\* <<catalog>> for a catalog, Thrown for an exception.
normalizeCatalog(raw, now) ==
  IF raw = Null THEN Null
  ELSE IF ~Truthy(raw[1]) \/ TypeOf(raw[1]) # "object" THEN Null
  ELSE LET r == raw[1]
           tree == IF IsArray(Get(r, "tree")) THEN Get(r, "tree")
                   ELSE IF IsArray(Get(r, "categories")) THEN Get(r, "categories")
                   ELSE JUndefined IN
       IF ~IsNonEmptyArray(tree) THEN Null
       ELSE LET flat == flattenItemsFromTree(tree)
                trustList == IsNonEmptyArray(Get(r, "list"))
                list == IF trustList THEN Get(r, "list") ELSE JArray(flat.out)
                legacyUpdated ==
                  IF Truthy(Get(r, "meta")) /\ Truthy(Get(Get(r, "meta"), "updatedAt"))
                  THEN Get(Get(r, "meta"), "updatedAt")
                  ELSE Get(r, "updatedAt")
                totalItems == Get(Get(r, "meta"), "totalItems")
                version == Get(Get(r, "meta"), "version")
            IN IF ~trustList /\ flat.threw THEN Thrown
               ELSE <<[tree |-> tree,
                       list |-> list,
                       meta |-> [updatedAt |-> IF TypeOf(legacyUpdated) = "string" /\ Truthy(legacyUpdated)
                                               THEN legacyUpdated.str ELSE now,
                                 totalItems |-> IF TypeOf(totalItems) = "number" /\ totalItems.num >= 0
                                                THEN totalItems.num ELSE Len(list.elems),
                                 version |-> IF TypeOf(version) = "number"
                                             THEN version.num ELSE SchemaVersion]]>>

(***************************************************************************)
(* searchItems and matchesSearch.                                          *)
(***************************************************************************)
DefaultLimit == 20

\* query.split(/\s+/): the pieces between the runs of whitespace, the empty
\* pieces before a leading run and after a trailing run included
RECURSIVE SplitFrom(_, _)
SplitFrom(s, piece) ==
  IF s = <<>> THEN <<piece>>
  ELSE IF IsSpace(Head(s)) THEN <<piece>> \o SplitFrom(TrimStart(s), <<>>)
  ELSE SplitFrom(Tail(s), Append(piece, Head(s)))

Split(s) == SplitFrom(s, <<>>)

\* text.includes(term)
Includes(text, term) ==
  \E i \in 0..(Len(text) - Len(term)) : SubSeq(text, i + 1, i + Len(term)) = term

\* .filter(Boolean) on the fields of an item: undefined and "" are dropped
RECURSIVE FilterBoolean(_)
FilterBoolean(values) ==
  IF values = <<>> THEN <<>>
  ELSE IF Head(values) = Undefined \/ Head(values) = <<>> THEN FilterBoolean(Tail(values))
  ELSE <<Head(values)>> \o FilterBoolean(Tail(values))

\* .join(" ")
RECURSIVE Join(_)
Join(values) ==
  IF values = <<>> THEN <<>>
  ELSE IF Len(values) = 1 THEN Head(values)
  ELSE Head(values) \o <<" ">> \o Join(Tail(values))

\* a haystack made of the title alone
HaystackTitleOnly(item) == ToLowerCase(item.title)

\* the text matchesSearch looks the terms up in
Haystack(item) ==
  ToLowerCase(Join(FilterBoolean(<<item.title, item.description, item.category, item.subcategory>>)))

\* matchesSearch with terms.some in the place of terms.every
matchesSearchSome(item, terms) ==
  \E k \in 1..Len(terms) : Includes(Haystack(item), terms[k])

matchesSearch(item, terms) ==
  \A k \in 1..Len(terms) : Includes(Haystack(item), terms[k])

\* the loop of searchItems: push a match, then stop once limit results are held
RECURSIVE SearchLoop(_, _, _, _)
SearchLoop(items, terms, limit, results) ==
  IF items = <<>> THEN results
  ELSE LET pushed == IF matchesSearch(Head(items), terms)
                     THEN Append(results, Head(items)) ELSE results IN
       IF Len(pushed) >= limit THEN pushed
       ELSE SearchLoop(Tail(items), terms, limit, pushed)

\* searchItems without its test of the empty query
searchItemsNoEmptyTest(catalog, query, limit) ==
  SearchLoop(catalog.list, Split(ToLowerCase(query)), limit, <<>>)

searchItems(catalog, query, limit) ==
  IF query = <<>> THEN <<>>
  ELSE SearchLoop(catalog.list, Split(ToLowerCase(query)), limit, <<>>)

(***************************************************************************)
(* The inputs of searchItems: catalogs whose list is a run of one item     *)
(* followed by a few items of any kind, queries and limits.                *)
(***************************************************************************)
MaxRepeat == 20
MaxTail == 2
MaxLimit == 2

SearchItem(title, description, category, subcategory) ==
  [title |-> title, url |-> Url1, description |-> description,
   category |-> category, subcategory |-> subcategory]

\* haystacks: "a x", "b a x", "y d a b", "ab"
ItemA == SearchItem(<<"a">>, Undefined, <<"x">>, Undefined)
ItemBA == SearchItem(<<"b">>, <<"a">>, <<"x">>, Undefined)
ItemYD == SearchItem(<<"y">>, <<"d">>, <<"A">>, <<"B">>)
ItemAB == SearchItem(<<"a", "b">>, Undefined, <<>>, Undefined)

SearchItems == {ItemA, ItemBA, ItemYD, ItemAB}

Repeat(item, k) == [i \in 1..k |-> item]

SearchLists ==
  { Repeat(ItemA, k) \o tail :
      k \in 0..MaxRepeat, tail \in UNION {[1..n -> SearchItems] : n \in 0..MaxTail} }

\* searchItems reads the list of the catalog and nothing else
SearchCatalog(items, now) ==
  [tree |-> <<[title |-> <<"x">>, slug |-> <<"x">>, items |-> items, children |-> <<>>]>>,
   list |-> items,
   meta |-> [updatedAt |-> now, totalItems |-> Len(items), version |-> SchemaVersion]]

Terms == {<<"a">>, <<"b">>}

Queries ==
  {a \o <<" ">> \o b : a, b \in Terms}
    \cup {<<>>, <<"a">>, <<"b">>, <<"B", " ", " ", "A">>, <<" ", "a">>, <<"b", " ">>, <<" ">>, <<"a", "x">>}

Limits == (0..MaxLimit) \cup {DefaultLimit}

(***************************************************************************)
(* The inputs of normalizeCatalog: serialized catalogs of documents, and   *)
(* decoded values of every shape the stored key can hold.                  *)
(***************************************************************************)
MaxDocNodes == 3

DocNodes ==
  {HeadingNode(2, Str_a), HeadingNode(3, Str_b),
   ListNode(<<ItemWithDescription>>), ListNode(<<ItemNoLink, ItemPlain>>)}

Docs == UNION {[1..n -> DocNodes] : n \in 0..MaxDocNodes}

\* ## a / - [y](u2) / ### b / - [x](u1) - d
SampleTree ==
  parseAwesomeList(<<HeadingNode(2, Str_a), ListNode(<<ItemPlain>>),
                     HeadingNode(3, Str_b), ListNode(<<ItemWithDescription>>)>>, "").tree

\* ## a-b / - [x](u1) - d
LegacyTree ==
  parseAwesomeList(<<HeadingNode(2, <<"a", "-", "b">>), ListNode(<<ItemWithDescription>>)>>, "").tree

\* an object with the properties of `fields` that are not undefined
Props(fields) == [k \in {f \in DOMAIN fields : fields[f] # JUndefined} |-> fields[k]]

TreeValues ==
  {JUndefined, JString("tree"), JArray(<<>>), JArray(StringifyTree(SampleTree)),
   JArray(<<JNull>>),
   JArray(<<JObject([title |-> JString(Str_a), children |-> JArray(<<JNull>>)])>>),
   JArray(<<JNumber(1), JObject([title |-> JString(Str_a), items |-> JString("items")])>>)}

CategoriesValues == {JUndefined, JArray(<<>>), JArray(StringifyTree(LegacyTree))}

ListValues ==
  {JUndefined, JString("list"), JArray(<<>>),
   JArray(<<StringifyItem(SearchItem(<<"t">>, Undefined, Str_a, Undefined))>>)}

MetaValues ==
  {JUndefined, JNull, JString("meta")}
    \cup {JObject(Props([updatedAt |-> u, totalItems |-> n, version |-> v])) :
            u \in {JUndefined, JString(""), JString("2022-02-02T00:00:00Z"), JNumber(5)},
            n \in {JUndefined, JNumber(7), JNumber(-1), JString("7")},
            v \in {JUndefined, JNumber(1)}}

UpdatedAtValues == {JUndefined, JString("2021-01-01T00:00:00Z"), JNumber(3)}

RawValues ==
  {Null, <<JNull>>, <<JString("raw")>>, <<JNumber(0)>>, <<JArray(StringifyTree(SampleTree))>>}
    \cup {<<JObject(Props([tree |-> t, categories |-> c, list |-> l, meta |-> m, updatedAt |-> u]))>> :
            t \in TreeValues, c \in CategoriesValues, l \in ListValues,
            m \in MetaValues, u \in UpdatedAtValues}

VARIABLES
  tree, list, currentCategory, currentSubcategory, \* parseAwesomeList's locals
  node,          \* the AST node of the current loop iteration
  nodesSeen,     \* how many AST nodes the loop has consumed
  parsed,        \* <<>> while parsing, <<catalog>> once parseAwesomeList has returned
  kvCatalog,     \* the value under awesome:catalog, <<>> when the key is missing
  kvEtag,        \* the value under awesome:etag, <<>> when the key is missing
  upstream,      \* the version of the README GitHub serves
  nodeEnv, cronSecret, \* process.env.NODE_ENV and process.env.CRON_SECRET (Undefined when not set)
  pc,            \* where each request handler stands
  local,         \* each handler's locals: force, lastEtag, content, source, etag, isModified, catalog
  response,      \* each handler's response
  request,       \* each handler's request: the force query parameter and the headers read
  calls,         \* per request: the calls made so far, and the call that threw, if any
  atStart,       \* per request: the store as the request found it
  catalog,       \* the catalog in memory: the one searched, or the one serialized; <<>> when none
  query, limit,  \* the arguments of searchItems
  results,       \* what searchItems returned
  raw,           \* the decoded value handed to normalizeCatalog
  clock,         \* the time normalizeCatalog reads
  normalized,    \* what normalizeCatalog returned
  call,          \* the function that has returned, "" before the call
  slugText, slug \* the argument of slugify and what it returned

builderVars == <<tree, list, currentCategory, currentSubcategory, node, nodesSeen, parsed>>

storeVars == <<kvCatalog, kvEtag>>

envVars == <<nodeEnv, cronSecret>>

syncVars == <<kvCatalog, kvEtag, upstream, nodeEnv, cronSecret, pc, local, request, response, calls, atStart>>

pureVars == <<catalog, query, limit, results, raw, clock, normalized, call, slugText, slug>>

vars == <<tree, list, currentCategory, currentSubcategory, node, nodesSeen, parsed,
          kvCatalog, kvEtag, upstream, nodeEnv, cronSecret, pc, local, request, response, calls, atStart,
          catalog, query, limit, results, raw, clock, normalized, call, slugText, slug>>

NoLocal ==
  [force |-> FALSE, lastEtag |-> Null, content |-> 0, source |-> "", etag |-> Null,
   isModified |-> FALSE, catalog |-> Null]

NoResponse == [status |-> 0, ok |-> FALSE, stored |-> FALSE, error |-> ""]

NoCalls ==
  [fetchAwesomeReadme |-> 0, getStoredEtag |-> 0, getCatalog |-> 0, parseAwesomeList |-> 0,
   persistCatalog |-> 0, storeEtag |-> 0, threw |-> ""]

NoRequest == [force |-> Null, xForceSync |-> Null, xCronSecret |-> Null, authorization |-> Null]

Secret == <<"s", "3">>

Bearer == <<"B", "e", "a", "r", "e", "r", " ">>

\* the values of process.env.CRON_SECRET: not set, blank, the secret, and the
\* secret followed by a space
EnvSecrets == {Undefined, <<" ">>, Secret, Secret \o <<" ">>}

\* no pure function is under call
NoCall ==
  /\ catalog = Null /\ query = <<>> /\ limit = 0 /\ results = <<>>
  /\ raw = Null /\ clock = "" /\ normalized = Null /\ call = ""
  /\ slugText = <<>> /\ slug = <<>>

Init ==
  /\ tree = <<>> /\ list = <<>> /\ currentCategory = 0 /\ currentSubcategory = 0
  /\ node = NoNode /\ nodesSeen = 0 /\ parsed = <<>>
  /\ kvCatalog = Null
  /\ kvEtag \in {Null, RawEtag(1)}
  /\ upstream = 1
  /\ nodeEnv \in {"production", "development"}
  /\ cronSecret \in EnvSecrets
  /\ nodeEnv = "development" => cronSecret = Undefined \* CRON_SECRET is read in production only
  /\ pc = [p \in Procs |-> "idle"]
  /\ local = [p \in Procs |-> NoLocal]
  /\ request = [p \in Procs |-> NoRequest]
  /\ response = [p \in Procs |-> NoResponse]
  /\ calls = [p \in Procs |-> NoCalls]
  /\ atStart = [p \in Procs |-> [catalog |-> Null, etag |-> Null]]
  /\ NoCall

(***************************************************************************)
(* parseAwesomeList, one AST node per step.                                *)
(***************************************************************************)
Builder ==
  [tree |-> tree, list |-> list, currentCategory |-> currentCategory,
   currentSubcategory |-> currentSubcategory]

Consume(n) ==
  /\ parsed = <<>>
  /\ nodesSeen < MaxNodes
  /\ LET b == BuilderStep(Builder, n) IN
       /\ tree' = b.tree
       /\ list' = b.list
       /\ currentCategory' = b.currentCategory
       /\ currentSubcategory' = b.currentSubcategory
  /\ node' = n
  /\ nodesSeen' = nodesSeen + 1
  /\ UNCHANGED <<parsed, syncVars, pureVars>>

ParseH2 == \E text \in H2Texts : Consume(HeadingNode(2, text))

ParseH3 == \E text \in H3Texts : Consume(HeadingNode(3, text))

ParseList == \E items \in LinkLists : Consume(ListNode(items))

ParseOther == \E n \in OtherNodes : Consume(n)

ParseReturn ==
  /\ parsed = <<>>
  /\ \E now \in Timestamps : parsed' = <<MakeCatalog(Builder, now)>>
  /\ UNCHANGED <<tree, list, currentCategory, currentSubcategory, node, nodesSeen, syncVars, pureVars>>

InitBuild == Init /\ kvEtag = Null /\ nodeEnv = "development" /\ cronSecret = Undefined

NextBuild == ParseH2 \/ ParseH3 \/ ParseList \/ ParseOther \/ ParseReturn

SpecBuild == InitBuild /\ [][NextBuild]_vars

(***************************************************************************)
(* The sync cycle: POST of /api/admin/sync, one step per await.            *)
(***************************************************************************)
ForceParams == {Null, <<"1">>, <<"true">>, <<"0">>}

ForceHeaders == {Null, <<"true">>}

CronHeaders == {Null, <<Secret>>, <<<<"n", "o">>>>}

AuthHeaders == {Null, <<Bearer \o Secret>>, <<Secret>>}

\* getEnv: "" for a variable that is not set, the trimmed value otherwise
getEnv(value) == IF value = Undefined THEN <<>> ELSE Trim(value)

\* verifyCronSecret that takes the bare secret for the Authorization header
verifyCronSecretBare(req) ==
  LET secret == getEnv(cronSecret) IN
  IF nodeEnv # "production" THEN 0
  ELSE IF secret = <<>> THEN 500
  ELSE IF \/ (req.xCronSecret # Null /\ req.xCronSecret[1] # <<>> /\ req.xCronSecret[1] = secret)
          \/ (req.authorization # Null /\ req.authorization[1] # <<>>
              /\ req.authorization[1] = secret)
       THEN 0
  ELSE 401

\* verifyCronSecret: 0 to proceed, otherwise the status of the refusal
verifyCronSecret(req) ==
  LET secret == getEnv(cronSecret) IN
  IF nodeEnv # "production" THEN 0
  ELSE IF secret = <<>> THEN 500
  ELSE IF \/ (req.xCronSecret # Null /\ req.xCronSecret[1] # <<>> /\ req.xCronSecret[1] = secret)
          \/ (req.authorization # Null /\ req.authorization[1] # <<>>
              /\ req.authorization[1] = Bearer \o secret)
       THEN 0
  ELSE 401

\* a handler that takes only "1" for the force flag
ForceFlagOnlyOne(req) == req.force = <<"1">> \/ req.xForceSync = <<"1">>

\* const force = forceQS === "1" || forceQS === "true" || forceHeader === "1" || ...
ForceFlag(req) ==
  \/ req.force = <<"1">> \/ req.force = <<"true">>
  \/ req.xForceSync = <<"1">> \/ req.xForceSync = <<"true">>

\* a retry that is conditional like the first fetch
RetryForceConditional == FALSE

\* the force argument of the self-healing second fetchAwesomeReadme call
RetryForce == TRUE

\* a handler that refetches whenever the fetch says "not modified"
AfterGetCatalogAlwaysHeal(existing) == "refetch"

\* if (!existing) fetchAwesomeReadme(true); then if (!isModified) return "Not modified"
AfterGetCatalog(existing) == IF existing = Null THEN "refetch" ELSE "notModified"

\* a handler that persists an empty catalog when parsing fails
AfterParseSwallow(succeeded) == "persistCatalog"

\* await parseAwesomeList(content), inside the try block
AfterParse(succeeded) == IF succeeded THEN "persistCatalog" ELSE "parseError"

\* a handler that goes on to the ETag when persisting the catalog failed
AfterPersistSwallow(succeeded, etag) == IF etag # Null THEN "storeEtag" ELSE "stored"

\* await persistCatalog(catalog); if (etag) await storeEtag(etag)
AfterPersist(succeeded, etag) ==
  IF ~succeeded THEN "kvError" ELSE IF etag # Null THEN "storeEtag" ELSE "stored"

\* where the handler goes when fetchAwesomeReadme has returned
AfterFetch(p, isModified) ==
  IF isModified THEN "parse"
  ELSE IF calls[p].fetchAwesomeReadme = 0 THEN "getCatalog"
  ELSE "notModified"

Errors == {"kvError", "githubError", "parseError"}

\* the catch block's answer: { ok: false, error: message }, status 500
ErrorResponse(message) == [status |-> 500, ok |-> FALSE, stored |-> FALSE, error |-> message]

NotModifiedResponse == [status |-> 200, ok |-> TRUE, stored |-> FALSE, error |-> ""]

StoredResponse == [status |-> 200, ok |-> TRUE, stored |-> TRUE, error |-> ""]

\* move handler p to `target`; the ends of the handler write its response
Goto(p, target) ==
  /\ pc' = [pc EXCEPT ![p] = IF target \in Errors \cup {"notModified", "stored"} THEN "done" ELSE target]
  /\ response' = [response EXCEPT ![p] =
                    IF target \in Errors THEN ErrorResponse(target)
                    ELSE IF target = "notModified" THEN NotModifiedResponse
                    ELSE IF target = "stored" THEN StoredResponse
                    ELSE @]

\* a request reaches the endpoint (POST, or GET, which calls POST)
Request(p) ==
  /\ pc[p] \in {"idle", "done"}
  /\ \E f \in ForceParams, h \in ForceHeaders, a \in CronHeaders, b \in AuthHeaders :
       request' = [request EXCEPT ![p] =
                     [force |-> f, xForceSync |-> h, xCronSecret |-> a, authorization |-> b]]
  /\ pc' = [pc EXCEPT ![p] = "received"]
  /\ local' = [local EXCEPT ![p] = NoLocal]
  /\ calls' = [calls EXCEPT ![p] = NoCalls]
  /\ response' = [response EXCEPT ![p] = NoResponse]
  /\ atStart' = [atStart EXCEPT ![p] = [catalog |-> kvCatalog, etag |-> kvEtag]]
  /\ UNCHANGED <<pureVars, builderVars, storeVars, upstream, envVars>>

\* POST up to its first await: verifyCronSecret, then the force flag.  The
\* request is not read again after that.
Start(p) ==
  /\ pc[p] = "received"
  /\ LET guard == verifyCronSecret(request[p]) IN
       IF guard # 0
       THEN /\ pc' = [pc EXCEPT ![p] = "done"]
            /\ response' = [response EXCEPT ![p] =
                 [status |-> guard, ok |-> FALSE, stored |-> FALSE, error |-> "refused"]]
            /\ UNCHANGED local
       ELSE /\ pc' = [pc EXCEPT ![p] = IF ForceFlag(request[p]) THEN "fetchRaw" ELSE "getStoredEtag"]
            /\ local' = [local EXCEPT ![p].force = ForceFlag(request[p])]
            /\ UNCHANGED response
  /\ request' = [request EXCEPT ![p] = NoRequest]
  /\ atStart' = [atStart EXCEPT ![p] = [catalog |-> kvCatalog, etag |-> kvEtag]]
  /\ UNCHANGED <<pureVars, builderVars, storeVars, upstream, envVars, calls>>

\* fetchAwesomeReadme(false): const lastEtag = await getStoredEtag()
GetStoredEtag(p) ==
  /\ pc[p] = "getStoredEtag"
  /\ \E kvOk \in BOOLEAN :
       IF kvOk
       THEN /\ local' = [local EXCEPT ![p].lastEtag = kvEtag]
            /\ calls' = [calls EXCEPT ![p].getStoredEtag = @ + 1]
            /\ Goto(p, "fetchRaw")
       ELSE /\ UNCHANGED local
            /\ calls' = [calls EXCEPT ![p].getStoredEtag = @ + 1, ![p].threw = "getStoredEtag"]
            /\ Goto(p, "kvError")
  /\ UNCHANGED <<pureVars, builderVars, storeVars, upstream, envVars, request, atStart>>

\* what fetchAwesomeReadme returns
Fetched(p, content, source, etag, isModified) ==
  /\ local' = [local EXCEPT ![p].content = content, ![p].source = source,
                            ![p].etag = etag, ![p].isModified = isModified]
  /\ calls' = [calls EXCEPT ![p].fetchAwesomeReadme = @ + 1]
  /\ Goto(p, AfterFetch(p, isModified))

\* const rawRes = await fetch(rawUrl, { headers }), and what follows from the
\* answer: 304 (only to a matching If-None-Match), 200, any other status, or
\* a rejected fetch
FetchRaw(p) ==
  /\ pc[p] = "fetchRaw"
  /\ \/ /\ local[p].lastEtag # Null
        /\ local[p].lastEtag = RawEtag(upstream)
        /\ Fetched(p, 0, "raw", RawEtag(upstream), FALSE)
     \/ \E etag \in {Null, RawEtag(upstream)} : Fetched(p, upstream, "raw", etag, TRUE)
     \/ /\ Goto(p, "fetchApi")
        /\ UNCHANGED <<local, calls>>
     \/ /\ Goto(p, "githubError")
        /\ calls' = [calls EXCEPT ![p].fetchAwesomeReadme = @ + 1, ![p].threw = "fetch"]
        /\ UNCHANGED local
  /\ UNCHANGED <<pureVars, builderVars, storeVars, upstream, envVars, request, atStart>>

\* const apiRes = await fetch(apiUrl, { headers }), and what follows from the answer
FetchApi(p) ==
  /\ pc[p] = "fetchApi"
  /\ \/ /\ local[p].lastEtag # Null
        /\ local[p].lastEtag = ApiEtag(upstream)
        /\ Fetched(p, 0, "api", ApiEtag(upstream), FALSE)
     \/ \E etag \in {Null, ApiEtag(upstream)} : Fetched(p, upstream, "api", etag, TRUE)
     \/ /\ Goto(p, "githubError")
        /\ calls' = [calls EXCEPT ![p].fetchAwesomeReadme = @ + 1, ![p].threw = "fetch"]
        /\ UNCHANGED local
  /\ UNCHANGED <<pureVars, builderVars, storeVars, upstream, envVars, request, atStart>>

\* const existing = await getCatalog(); if (!existing) the forced fetch starts
GetCatalog(p) ==
  /\ pc[p] = "getCatalog"
  /\ \E kvOk \in BOOLEAN, now \in Timestamps :
       IF kvOk /\ normalizeCatalog(kvCatalog, now) # Thrown
       THEN LET target == AfterGetCatalog(normalizeCatalog(kvCatalog, now)) IN
            /\ calls' = [calls EXCEPT ![p].getCatalog = @ + 1]
            /\ IF target = "refetch"
               THEN /\ local' = [local EXCEPT ![p].force = RetryForce,
                                              ![p].lastEtag = IF RetryForce THEN Null ELSE kvEtag]
                    /\ Goto(p, "fetchRaw")
               ELSE /\ UNCHANGED local
                    /\ Goto(p, target)
       ELSE /\ UNCHANGED local
            /\ calls' = [calls EXCEPT ![p].getCatalog = @ + 1, ![p].threw = "getCatalog"]
            /\ Goto(p, "kvError")
  /\ UNCHANGED <<pureVars, builderVars, storeVars, upstream, envVars, request, atStart>>

\* the catalog of a document with no content
EmptyCatalog(now) == MakeCatalog(InitBuilder, now)

\* const catalog = await parseAwesomeList(content)
Parse(p) ==
  /\ pc[p] = "parse"
  /\ \E succeeded \in BOOLEAN, now \in Timestamps :
       /\ local' = [local EXCEPT ![p].catalog =
                      IF succeeded
                      THEN <<parseAwesomeList(parseMarkdown(local[p].content), now)>>
                      ELSE @]
       /\ calls' = [calls EXCEPT ![p].parseAwesomeList = @ + 1,
                                 ![p].threw = IF succeeded THEN @ ELSE "parseAwesomeList"]
       /\ Goto(p, AfterParse(succeeded))
  /\ UNCHANGED <<pureVars, builderVars, storeVars, upstream, envVars, request, atStart>>

\* await persistCatalog(catalog)
\* a persistCatalog whose write lands although the call throws
PersistCatalogTornWrite(p) ==
  /\ pc[p] = "persistCatalog"
  /\ \E succeeded \in BOOLEAN :
       /\ kvCatalog' =
            IF local[p].catalog = Null THEN <<StringifyCatalog(EmptyCatalog(""))>>
            ELSE <<StringifyCatalog(local[p].catalog[1])>>
       /\ calls' = [calls EXCEPT ![p].persistCatalog = @ + 1,
                                 ![p].threw = IF succeeded THEN @ ELSE "persistCatalog"]
       /\ Goto(p, AfterPersist(succeeded, local[p].etag))
  /\ UNCHANGED <<pureVars, builderVars, kvEtag, upstream, envVars, local, request, atStart>>

PersistCatalog(p) ==
  /\ pc[p] = "persistCatalog"
  /\ \E succeeded \in BOOLEAN :
       /\ kvCatalog' =
            IF ~succeeded THEN kvCatalog
            ELSE IF local[p].catalog = Null THEN <<StringifyCatalog(EmptyCatalog(""))>>
            ELSE <<StringifyCatalog(local[p].catalog[1])>>
       /\ calls' = [calls EXCEPT ![p].persistCatalog = @ + 1,
                                 ![p].threw = IF succeeded THEN @ ELSE "persistCatalog"]
       /\ Goto(p, AfterPersist(succeeded, local[p].etag))
  /\ UNCHANGED <<pureVars, builderVars, kvEtag, upstream, envVars, local, request, atStart>>

\* await storeEtag(etag)
StoreEtag(p) ==
  /\ pc[p] = "storeEtag"
  /\ \E succeeded \in BOOLEAN :
       /\ kvEtag' = IF succeeded THEN local[p].etag ELSE kvEtag
       /\ calls' = [calls EXCEPT ![p].storeEtag = @ + 1,
                                 ![p].threw = IF succeeded THEN @ ELSE "storeEtag"]
       /\ Goto(p, IF succeeded THEN "stored" ELSE "kvError")
  /\ UNCHANGED <<pureVars, builderVars, kvCatalog, upstream, envVars, local, request, atStart>>

\* the README changes on GitHub
UpstreamPush ==
  /\ upstream < MaxVersion
  /\ upstream' = upstream + 1
  /\ UNCHANGED <<pureVars, builderVars, storeVars, envVars, pc, local, request, response, calls, atStart>>

Handler(p) ==
  \/ Request(p) \/ Start(p) \/ GetStoredEtag(p) \/ FetchRaw(p) \/ FetchApi(p) \/ GetCatalog(p)
  \/ Parse(p) \/ PersistCatalog(p) \/ StoreEtag(p)

\* one handler at a time: the single-writer assumption of the sync cycle
NextSync == Handler(1) \/ UpstreamPush

SpecSync == Init /\ [][NextSync]_vars

(***************************************************************************)
(* Two sync cycles on one store.  The handlers run without faults: no      *)
(* call throws, the raw URL answers with an ETag, and the requests carry   *)
(* no force flag.  The second handler serves one request.                  *)
(***************************************************************************)
InitRace == Init /\ kvEtag = Null /\ nodeEnv = "development"

RaceHandler(p) ==
  \/ Request(p) \/ Start(p) \/ GetStoredEtag(p) \/ FetchRaw(p) \/ GetCatalog(p)
  \/ Parse(p) \/ PersistCatalog(p) \/ StoreEtag(p)

RaceStep(p) ==
  /\ RaceHandler(p)
  /\ calls'[p].threw = ""
  /\ pc'[p] # "fetchApi"
  /\ pc[p] \in {"idle", "done"} => request'[p] = NoRequest
  /\ local'[p].isModified => local'[p].etag # Null

NextRace == RaceStep(1) \/ (pc[2] # "done" /\ RaceStep(2)) \/ UpstreamPush

SpecRace == InitRace /\ [][NextRace]_vars

(***************************************************************************)
(* searchItems, called on a catalog, a query and a limit.                  *)
(***************************************************************************)
\* the builder and the sync cycle at rest
AtRest ==
  /\ tree = <<>> /\ list = <<>> /\ currentCategory = 0 /\ currentSubcategory = 0
  /\ node = NoNode /\ nodesSeen = 0 /\ parsed = <<>>
  /\ kvCatalog = Null /\ kvEtag = Null /\ upstream = 1
  /\ nodeEnv = "development" /\ cronSecret = Undefined
  /\ pc = [p \in Procs |-> "idle"]
  /\ local = [p \in Procs |-> NoLocal]
  /\ request = [p \in Procs |-> NoRequest]
  /\ response = [p \in Procs |-> NoResponse]
  /\ calls = [p \in Procs |-> NoCalls]
  /\ atStart = [p \in Procs |-> [catalog |-> Null, etag |-> Null]]

InitSearch ==
  /\ AtRest
  /\ \E items \in SearchLists : catalog = <<SearchCatalog(items, "2023-01-01T00:00:00Z")>>
  /\ query \in Queries
  /\ limit \in Limits
  /\ results = <<>>
  /\ raw = Null /\ clock = "" /\ normalized = Null /\ call = ""
  /\ slugText = <<>> /\ slug = <<>>

Search ==
  /\ call = ""
  /\ results' = searchItems(catalog[1], query, limit)
  /\ call' = "searchItems"
  /\ UNCHANGED <<builderVars, syncVars, catalog, query, limit, raw, clock, normalized, slugText, slug>>

NextSearch == Search

SpecSearch == InitSearch /\ [][NextSearch]_vars

(***************************************************************************)
(* slugify, called on a string and then on its own result.                 *)
(***************************************************************************)
SlugChars == {"a", "A", "_", " ", "-", "!"}

SlugTexts == UNION {[1..n -> SlugChars] : n \in 0..MaxText}

InitSlug ==
  /\ AtRest
  /\ catalog = Null /\ query = <<>> /\ limit = 0 /\ results = <<>>
  /\ raw = Null /\ clock = "" /\ normalized = Null /\ call = ""
  /\ slugText \in SlugTexts /\ slug = <<>>

Slugify ==
  /\ call = ""
  /\ slug' = slugify(slugText)
  /\ call' = "slugify"
  /\ UNCHANGED <<builderVars, syncVars, catalog, query, limit, results, raw, clock, normalized,
                 slugText>>

SlugifyAgain ==
  /\ call = "slugify"
  /\ slugText' = slug
  /\ slug' = slugify(slug)
  /\ call' = "slugify again"
  /\ UNCHANGED <<builderVars, syncVars, catalog, query, limit, results, raw, clock, normalized>>

NextSlug == Slugify \/ SlugifyAgain

SpecSlug == InitSlug /\ [][NextSlug]_vars

(***************************************************************************)
(* normalizeCatalog, called on a decoded value.                            *)
(***************************************************************************)
InitNormalize ==
  /\ AtRest
  /\ \/ catalog = Null /\ raw \in RawValues
     \/ \E doc \in Docs, now \in Timestamps :
          /\ catalog = <<parseAwesomeList(doc, now)>>
          /\ raw = <<StringifyCatalog(parseAwesomeList(doc, now))>>
  /\ clock \in Timestamps
  /\ query = <<>> /\ limit = 0 /\ results = <<>>
  /\ normalized = Null /\ call = ""
  /\ slugText = <<>> /\ slug = <<>>

Normalize ==
  /\ call = ""
  /\ normalized' = normalizeCatalog(raw, clock)
  /\ call' = "normalizeCatalog"
  /\ UNCHANGED <<builderVars, syncVars, catalog, query, limit, results, raw, clock, slugText, slug>>

NextNormalize == Normalize

SpecNormalize == InitNormalize /\ [][NextNormalize]_vars

(***************************************************************************)
(* The sync cycle: properties.                                             *)
(***************************************************************************)
\* getCatalog on the stored value `raw` returns a catalog
HasCatalog(stored) == \A now \in Timestamps : normalizeCatalog(stored, now) \notin {Null, Thrown}

StoreUntouched(p) == kvCatalog = atStart[p].catalog /\ kvEtag = atStart[p].etag

\* C1: in a sync cycle the fingerprint is written only after persistCatalog
\* has succeeded for the content fetched in that cycle: whenever the cycle is
\* about to call storeEtag or has called it, it has made one persistCatalog
\* call, that call did not throw, and the store holds the catalog parsed in
\* this cycle; a cycle whose persistCatalog threw never calls storeEtag.
C1_EtagOnlyAfterCatalog ==
  \A p \in Procs :
    /\ (pc[p] = "storeEtag" \/ calls[p].storeEtag > 0) =>
         /\ calls[p].persistCatalog = 1
         /\ calls[p].threw \in {"", "storeEtag"}
         /\ local[p].catalog # Null
         /\ kvCatalog = <<StringifyCatalog(local[p].catalog[1])>>
    /\ calls[p].threw = "persistCatalog" =>
         calls[p].storeEtag = 0 /\ pc[p] = "done" /\ kvEtag = atStart[p].etag

C1_Witness ==
  /\ pc[1] = "done" /\ response[1] = StoredResponse
  /\ calls[1].storeEtag = 1
  /\ kvEtag = local[1].etag /\ kvEtag # atStart[1].etag

\* C2: when the fetch of the source or the parse of the fetched markdown
\* throws, the cycle is over with the error response (ok=false, status 500),
\* no persistCatalog and no storeEtag call was made, and the persisted
\* catalog and the stored fingerprint are what they were when the cycle began.
C2_FetchOrParseFailureLeavesStore ==
  \A p \in Procs :
    calls[p].threw \in {"getStoredEtag", "fetch", "parseAwesomeList"} =>
      /\ pc[p] = "done"
      /\ response[p].ok = FALSE /\ response[p].status = 500
      /\ calls[p].persistCatalog = 0 /\ calls[p].storeEtag = 0
      /\ StoreUntouched(p)

C2_Witness ==
  /\ pc[1] = "done" /\ calls[1].threw = "parseAwesomeList"
  /\ response[1] = ErrorResponse("parseError")
  /\ kvCatalog # Null /\ kvEtag # Null

\* C3: when the fetch reports "not modified" and getCatalog returns a
\* catalog (it did not throw and the persisted value normalizes to non-null),
\* the cycle is over with ok=true and stored=false, it has made no second
\* fetch, no parse and no store write, and the store is unchanged.
C3_NotModifiedIsNoOp ==
  \A p \in Procs :
    (calls[p].getCatalog = 1 /\ calls[p].threw # "getCatalog"
       /\ HasCatalog(atStart[p].catalog)) =>
      /\ pc[p] = "done"
      /\ response[p] = NotModifiedResponse
      /\ calls[p].fetchAwesomeReadme = 1
      /\ calls[p].parseAwesomeList = 0
      /\ calls[p].persistCatalog = 0 /\ calls[p].storeEtag = 0
      /\ StoreUntouched(p)

C3_Witness ==
  /\ pc[1] = "done" /\ calls[1].getCatalog = 1 /\ response[1] = NotModifiedResponse
  /\ HasCatalog(kvCatalog)

\* the self-healing case of C4: the first fetch said "not modified" and
\* getCatalog returned null
Healing(p) ==
  /\ calls[p].getCatalog = 1 /\ calls[p].threw # "getCatalog"
  /\ ~HasCatalog(atStart[p].catalog)

Flagged(req) ==
  req.force \in {<<"1">>, <<"true">>} \/ req.xForceSync \in {<<"1">>, <<"true">>}

\* C5: a request with the force flag set starts its fetch without reading the
\* stored fingerprint and sends no If-None-Match; a request without the flag
\* reads the stored fingerprint and passes it, if one exists, to the fetch.
C5_ForceSkipsFingerprint ==
  /\ [][\A p \in Procs :
          (pc[p] = "received" /\ pc'[p] \notin {"received", "done"}) =>
            /\ local'[p].force = Flagged(request[p])
            /\ pc'[p] = IF Flagged(request[p]) THEN "fetchRaw" ELSE "getStoredEtag"]_vars
  /\ [](\A p \in Procs :
          (pc[p] \in {"fetchRaw", "fetchApi"} /\ calls[p].fetchAwesomeReadme = 0) =>
            IF local[p].force
            THEN calls[p].getStoredEtag = 0 /\ local[p].lastEtag = Null
            ELSE calls[p].getStoredEtag = 1 /\ local[p].lastEtag = atStart[p].etag)

C5_Witness ==
  /\ pc[1] = "fetchRaw" /\ calls[1].fetchAwesomeReadme = 0
  /\ local[1].force /\ kvEtag # Null /\ local[1].lastEtag = Null

(***************************************************************************)
(* The builder: properties.                                                *)
(***************************************************************************)
\* the pre-order flatten of a tree: each node's own items, then its children
RECURSIVE PreorderItems(_)
PreorderItems(cats) ==
  IF cats = <<>> THEN <<>>
  ELSE Head(cats).items \o PreorderItems(Head(cats).children) \o PreorderItems(Tail(cats))

\* the number of items held by the nodes of a tree, children included
RECURSIVE CountItems(_)
CountItems(cats) ==
  IF cats = <<>> THEN 0
  ELSE Len(Head(cats).items) + CountItems(Head(cats).children) + CountItems(Tail(cats))

\* C6: for every sequence of block events, the emitted Catalog has
\* meta.totalItems = list.length = the sum of items.length over every node of
\* tree; the two counts already agree after each event.
C6_TotalItemsIsListLength ==
  /\ Len(list) = CountItems(tree)
  /\ parsed # <<>> =>
       /\ parsed[1].meta.totalItems = Len(parsed[1].list)
       /\ Len(parsed[1].list) = CountItems(parsed[1].tree)

C6_Witness ==
  /\ parsed # <<>> /\ parsed[1].meta.totalItems >= 3
  /\ \E c \in 1..Len(parsed[1].tree) :
       /\ parsed[1].tree[c].items # <<>>
       /\ \E k \in 1..Len(parsed[1].tree[c].children) :
            parsed[1].tree[c].children[k].items # <<>>

\* C7: the flat list is the pre-order flatten of tree (a node's own items,
\* then its children in order), after every event and in the emitted Catalog;
\* position by position the items of list are the items of the tree nodes, so
\* each item lies in one node and occurs once in list.
C7_ListIsPreorderFlatten ==
  /\ list = PreorderItems(tree)
  /\ parsed # <<>> => parsed[1].list = PreorderItems(parsed[1].tree)

C7_Witness ==
  /\ parsed # <<>> /\ Len(parsed[1].tree) = 1
  /\ Len(parsed[1].tree[1].items) = 2
  /\ Len(parsed[1].tree[1].children) = 1
  /\ Len(parsed[1].tree[1].children[1].items) = 1
  /\ parsed[1].list = parsed[1].tree[1].items \o parsed[1].tree[1].children[1].items

SlugsDistinct(cats) ==
  \A i, j \in 1..Len(cats) : i # j => cats[i].slug # cats[j].slug

\* C8: no two sibling Categories of the builder's tree share a slug: the
\* top-level categories have pairwise distinct slugs, and so have the children
\* of any one category.
C8_SiblingSlugsUnique ==
  /\ SlugsDistinct(tree)
  /\ \A c \in 1..Len(tree) : SlugsDistinct(tree[c].children)

\* C9: every Item of the builder's list has a non-empty title and a defined,
\* non-empty url, and its category is the title of a top-level Category of tree.
C9_ItemsWellFormed ==
  \A i \in 1..Len(list) :
    /\ list[i].title # <<>> /\ list[i].title # Undefined
    /\ list[i].url # <<>> /\ list[i].url # Undefined
    /\ \E c \in 1..Len(tree) : tree[c].title = list[i].category

C9_Witness ==
  /\ node = ListNode(<<ItemPlain, ItemNoUrl, ItemWithDescription>>)
  /\ Len(list) = 2 /\ Len(tree) = 2

\* C10: while no top-level category is open, an H3 heading or a link list
\* creates no Category and no Item: tree and list stay empty and the pointers
\* stay null; and the parse of such a document returns the empty Catalog.
C10_NothingBeforeFirstH2 ==
  /\ [][(currentCategory = 0 /\ nodesSeen' = nodesSeen + 1
           /\ (node'.type = "list" \/ (node'.type = "heading" /\ node'.depth = 3))) =>
          (tree' = <<>> /\ list' = <<>> /\ currentCategory' = 0 /\ currentSubcategory' = 0)]_vars
  /\ [](currentCategory = 0 <=> tree = <<>>)
  /\ []((parsed # <<>> /\ currentCategory = 0) =>
          (parsed[1].tree = <<>> /\ parsed[1].list = <<>> /\ parsed[1].meta.totalItems = 0))

C10_Witness ==
  /\ parsed # <<>> /\ parsed[1].tree = <<>>
  /\ nodesSeen >= 2 /\ node = ListNode(<<ItemWithDescription>>)

(***************************************************************************)
(* The builder: entries of a link list.                                    *)
(***************************************************************************)
Inlines(item) == IF item.children = <<>> THEN <<>> ELSE item.children[1].children

IsGoodLink(n) == n.type = "link" /\ n.url # <<>> /\ Trim(JoinText(n.children)) # <<>>

\* the bullet starts with a hyperlink that has a title and a url
LeadingLink(item) == Inlines(item) # <<>> /\ IsGoodLink(Inlines(item)[1])

\* the first hyperlink of the bullet, wherever it stands, has a title and a url
FirstLink(item) ==
  \E k \in 1..Len(Inlines(item)) :
    /\ IsGoodLink(Inlines(item)[k])
    /\ \A j \in 1..(k - 1) : Inlines(item)[j].type # "link"

\* the url of the first hyperlink of the bullet
LinkUrl(item) ==
  LET k == CHOOSE k \in 1..Len(Inlines(item)) : Inlines(item)[k].type = "link" IN
  Inlines(item)[k].url

RECURSIVE UrlsOfLeading(_)
UrlsOfLeading(items) ==
  IF items = <<>> THEN <<>>
  ELSE (IF LeadingLink(Head(items)) THEN <<LinkUrl(Head(items))>> ELSE <<>>)
         \o UrlsOfLeading(Tail(items))

RECURSIVE UrlsOfFirst(_)
UrlsOfFirst(items) ==
  IF items = <<>> THEN <<>>
  ELSE (IF FirstLink(Head(items)) THEN <<LinkUrl(Head(items))>> ELSE <<>>)
         \o UrlsOfFirst(Tail(items))

Urls(items) == [i \in 1..Len(items) |-> items[i].url]

\* the Items a list event added to the flat list
Added(before, after) == SubSeq(after, Len(before) + 1, Len(after))

ListEvent == currentCategory # 0 /\ nodesSeen' = nodesSeen + 1 /\ node'.type = "list"

\* C22 as stated: in a link list under an open category the bullets that
\* produce an Item are exactly those whose first inline element is a hyperlink
\* with a non-empty title and a non-empty url, in list order.
C22_OnlyLeadingLinks ==
  [][ListEvent =>
       /\ SubSeq(list', 1, Len(list)) = list
       /\ Urls(Added(list, list')) = UrlsOfLeading(node'.children)]_vars

\* C22: in a link list under an open category a bullet with no hyperlink among
\* its inline elements, or whose first hyperlink has an empty title or an empty
\* url, produces no Item; every other bullet of the list produces its Item, in
\* list order, text before the hyperlink notwithstanding.
C22_MalformedBulletsSkipped ==
  [][ListEvent =>
       /\ SubSeq(list', 1, Len(list)) = list
       /\ Urls(Added(list, list')) = UrlsOfFirst(node'.children)]_vars

C22_Witness ==
  /\ node = ListNode(<<ItemLateLink, ItemPlain>>)
  /\ Urls(list) = <<Url2, Url1, Url2, Url2>>
  /\ list[3].title = <<"b">> /\ list[2].title = <<"x">>

(***************************************************************************)
(* searchItems: properties.                                                *)
(***************************************************************************)
ItemsOf(seq) == {seq[i] : i \in 1..Len(seq)}

\* C11: search(catalog, "", n) returns an empty sequence for every catalog
\* and every limit n: an empty query matches nothing.
C11_EmptyQueryFindsNothing ==
  (call = "searchItems" /\ query = <<>>) => results = <<>>

C11_Witness ==
  /\ call = "searchItems" /\ query = <<>> /\ results = <<>>
  /\ limit = DefaultLimit /\ Len(catalog[1].list) > DefaultLimit

\* the number of items of the searched catalog that match the one term
CountMatches(term) ==
  Cardinality({i \in 1..Len(catalog[1].list) : matchesSearch(catalog[1].list[i], <<term>>)})

\* C12, as claimed: at the default limit every Item returned by
\* search(c, "a b") is also returned by search(c, "a") and by search(c, "b").
C12_ConjunctiveAtDefaultLimit ==
  \A a, b \in Terms :
    (call = "searchItems" /\ query = a \o <<" ">> \o b /\ limit = DefaultLimit) =>
      ItemsOf(results) \subseteq
        (ItemsOf(searchItems(catalog[1], a, DefaultLimit))
           \cap ItemsOf(searchItems(catalog[1], b, DefaultLimit)))

\* C12, amended: every Item returned by search(c, "a b", n) is returned by
\* search(c, "a", m) and search(c, "b", m) when m is the length of the list,
\* so that nothing is cut off; with the common limit n it is returned by both
\* when at most n Items match a and at most n Items match b.
C12_ConjunctiveUntruncated ==
  \A a, b \in Terms :
    (call = "searchItems" /\ query = a \o <<" ">> \o b) =>
      /\ ItemsOf(results) \subseteq
           (ItemsOf(searchItems(catalog[1], a, Len(catalog[1].list)))
              \cap ItemsOf(searchItems(catalog[1], b, Len(catalog[1].list))))
      /\ (CountMatches(a) <= limit /\ CountMatches(b) <= limit) =>
           ItemsOf(results) \subseteq
             (ItemsOf(searchItems(catalog[1], a, limit))
                \cap ItemsOf(searchItems(catalog[1], b, limit)))

C12_Witness ==
  /\ call = "searchItems" /\ query = <<"a", " ", "b">> /\ limit = DefaultLimit
  /\ results # <<>>
  /\ CountMatches(<<"a">>) > DefaultLimit
  /\ ItemsOf(results) \cap ItemsOf(searchItems(catalog[1], <<"a">>, DefaultLimit)) = {}

\* the whitespace-separated terms of a query: its maximal runs of characters
\* that are not whitespace
IsTerm(q, i, j) ==
  /\ \A n \in i..j : ~IsSpace(q[n])
  /\ (i = 1 \/ IsSpace(q[i - 1]))
  /\ (j = Len(q) \/ IsSpace(q[j + 1]))

TermsOf(q) ==
  {SubSeq(q, span[1], span[2]) :
     span \in {sp \in (1..Len(q)) \X (1..Len(q)) : sp[1] <= sp[2] /\ IsTerm(q, sp[1], sp[2])}}

Present(field) == field # Undefined

\* title, description (if present), category and subcategory (if present),
\* joined with single spaces, lower-cased
JoinedFields(item) ==
  ToLowerCase(item.title
              \o (IF Present(item.description) THEN <<" ">> \o item.description ELSE <<>>)
              \o <<" ">> \o item.category
              \o (IF Present(item.subcategory) THEN <<" ">> \o item.subcategory ELSE <<>>))

Matching(item, q) == \A term \in TermsOf(q) : Includes(JoinedFields(item), ToLowerCase(term))

MatchingItems(items, q) ==
  LET Test(item) == Matching(item, q) IN SelectSeq(items, Test)

\* C13: for a non-empty query and a positive limit, search returns exactly
\* the first min(limit, m) matching Items of catalog.list, in list order,
\* where m is the number of matching Items and an Item matches iff every
\* whitespace-separated, lower-cased term of the query is a substring of the
\* lower-cased text made of title, description (if present), category and
\* subcategory (if present) joined with single spaces.
C13_FirstMatchesInListOrder ==
  (call = "searchItems" /\ query # <<>> /\ limit >= 1) =>
    LET m == MatchingItems(catalog[1].list, query) IN
    results = SubSeq(m, 1, IF limit < Len(m) THEN limit ELSE Len(m))

C13_Witness ==
  /\ call = "searchItems" /\ query = <<"B", " ", " ", "A">> /\ limit = 1
  /\ Len(MatchingItems(catalog[1].list, query)) = 2
  /\ results = <<ItemBA>>
  /\ catalog[1].list[1] = ItemA

(***************************************************************************)
(* normalizeCatalog: properties.                                           *)
(***************************************************************************)
Returned == call = "normalizeCatalog"

\* raw[field], undefined when raw is no object
RawField(field) == IF raw = Null THEN JUndefined ELSE Get(raw[1], field)

IsCatalog(result) == result \notin {Null, Thrown}

NonEmptyString(v) == v.type = "string" /\ v.str # ""

\* C14: normalize returns null exactly when neither raw.tree nor
\* raw.categories is a non-empty array; whenever at least one of the two is a
\* non-empty array it returns a Catalog whose tree is that hierarchy field.
C14_NullIffNoHierarchy ==
  (Returned /\ normalized # Thrown) =>
    IF IsNonEmptyArray(RawField("tree")) \/ IsNonEmptyArray(RawField("categories"))
    THEN /\ IsCatalog(normalized)
         /\ \E field \in {"tree", "categories"} :
              IsNonEmptyArray(RawField(field)) /\ normalized[1].tree = RawField(field)
    ELSE normalized = Null

\* the pre-order flatten of a decoded hierarchy: each node's own items, then
\* the items below its children, in order
RECURSIVE PreorderJson(_)
PreorderJson(cats) ==
  IF cats = <<>> THEN <<>>
  ELSE (IF IsArray(Get(Head(cats), "items")) THEN Get(Head(cats), "items").elems ELSE <<>>)
       \o (IF IsArray(Get(Head(cats), "children"))
           THEN PreorderJson(Get(Head(cats), "children").elems) ELSE <<>>)
       \o PreorderJson(Tail(cats))

\* C15: in the Catalog normalize returns, list is raw.list unchanged when
\* raw.list is a non-empty array; otherwise list is the pre-order flatten of
\* the accepted hierarchy, so a legacy value with only `categories` gets a
\* list rebuilt from it.
C15_ListTrustedOrRebuilt ==
  (Returned /\ IsCatalog(normalized)) =>
    normalized[1].list =
      IF IsNonEmptyArray(RawField("list")) THEN RawField("list")
      ELSE JArray(PreorderJson(normalized[1].tree.elems))

C15_Witness ==
  /\ Returned /\ IsCatalog(normalized)
  /\ RawField("tree") = JUndefined /\ RawField("list") = JArray(<<>>)
  /\ RawField("categories") = JArray(StringifyTree(LegacyTree))
  /\ normalized[1].tree = RawField("categories")
  /\ normalized[1].list = JArray(StringifyItems(LegacyTree[1].items))
  /\ Len(normalized[1].list.elems) = 1

\* C16: normalize sets meta.updatedAt to raw.meta.updatedAt when that is a
\* non-empty string, otherwise to the top-level raw.updatedAt when that is a
\* non-empty string, and to the current time only when neither is one.
C16_UpdatedAtReused ==
  (Returned /\ IsCatalog(normalized)) =>
    normalized[1].meta.updatedAt =
      IF NonEmptyString(Get(RawField("meta"), "updatedAt"))
      THEN Get(RawField("meta"), "updatedAt").str
      ELSE IF NonEmptyString(RawField("updatedAt")) THEN RawField("updatedAt").str
      ELSE clock

\* C17: every Catalog normalize returns has meta.totalItems = list.length,
\* the inputs that carry their own numeric meta.totalItems included.
C17_TotalItemsIsListLength ==
  (Returned /\ IsCatalog(normalized)) =>
    normalized[1].meta.totalItems = Len(normalized[1].list.elems)

\* C18: for every document, normalize applied to the serialized output of
\* parse returns a Catalog equivalent to that output: the same tree, the same
\* list and the same meta (updatedAt, totalItems, version).
C18_RoundTrip ==
  (Returned /\ catalog # Null) =>
    normalized = <<[tree |-> JArray(StringifyTree(catalog[1].tree)),
                    list |-> JArray(StringifyItems(catalog[1].list)),
                    meta |-> catalog[1].meta]>>

\* C19: normalize never throws: for every decoded value whose tree or
\* categories holds a non-empty array, whatever the shape of its elements,
\* of list and of meta, it returns a Catalog.
C19_NeverThrows ==
  Returned =>
    /\ normalized # Thrown
    /\ (IsNonEmptyArray(RawField("tree")) \/ IsNonEmptyArray(RawField("categories"))) =>
         IsCatalog(normalized)

(***************************************************************************)
(* The guard of the sync endpoint: properties.                             *)
(***************************************************************************)
Refused(p, status) ==
  /\ pc'[p] = "done" /\ response'[p].status = status /\ ~response'[p].ok
  /\ calls'[p] = NoCalls
  /\ kvCatalog' = kvCatalog /\ kvEtag' = kvEtag

\* a refused request has made no call and has left the store alone
RefusedBeforeAnyAccess ==
  \A p \in Procs :
    (pc[p] = "done" /\ response[p].status \in {401, 500} /\ response[p].error = "refused") =>
      calls[p] = NoCalls /\ StoreUntouched(p)

CatalogsAt(v) ==
  {<<StringifyCatalog(parseAwesomeList(parseMarkdown(v), now))>> : now \in Timestamps}

EtagsAt(v) == {RawEtag(v), ApiEtag(v)}

\* the stored fingerprint is of a newer version than the persisted catalog
FingerprintAhead ==
  \E v, w \in 1..MaxVersion :
    /\ v < w
    /\ kvEtag \in EtagsAt(w)
    /\ kvCatalog \in CatalogsAt(v) /\ kvCatalog \notin CatalogsAt(w)

\* C21: with two sync cycles interleaved on one store, a state is reached
\* in which the stored fingerprint belongs to newer content than the
\* persisted catalog; a cycle that then receives "not modified" and reads a
\* catalog ends as a no-op and leaves the stale catalog under the newer
\* fingerprint.
C21_StaleCatalogKept ==
  [][\A p \in Procs :
       (pc[p] = "getCatalog" /\ pc'[p] # "getCatalog"
          /\ FingerprintAhead /\ HasCatalog(kvCatalog)) =>
         /\ pc'[p] = "done" /\ response'[p] = NotModifiedResponse
         /\ kvCatalog' = kvCatalog /\ kvEtag' = kvEtag]_vars

C21_Witness ==
  /\ FingerprintAhead /\ kvEtag = RawEtag(upstream)
  /\ pc[2] = "done" /\ response[2] = StoredResponse
  /\ pc[1] = "done" /\ response[1] = NotModifiedResponse
  /\ calls[1].getCatalog = 1 /\ calls[1].fetchAwesomeReadme = 1
  /\ atStart[1].catalog = kvCatalog /\ atStart[1].etag = kvEtag

(***************************************************************************)
(* slugify: properties.                                                    *)
(***************************************************************************)
LowerWordChars == {"a", "b", "d", "e", "t", "u", "x", "y", "1", "2", "_"}

Canonical(s) ==
  /\ \A i \in 1..Len(s) : s[i] \in LowerWordChars \cup {"-"}
  /\ \A i \in 1..(Len(s) - 1) : ~(s[i] = "-" /\ s[i + 1] = "-")
  /\ s # <<>> => (s[1] # "-" /\ s[Len(s)] # "-")

\* C23: slugify returns for every string a canonical slug: lower-case word
\* characters and hyphens only, no two adjacent hyphens, no hyphen at either
\* end (the empty string included); and slugifying a slug returns that slug.
C23_SlugCanonicalIdempotent ==
  /\ call # "" => (Len(slug) <= Len(slugText) /\ Canonical(slug))
  /\ call = "slugify again" => slug = slugText

C23_Witness ==
  /\ call = "slugify" /\ slugText = <<"A", "-", "!", " ", "_">> /\ slug = <<"a", "-", "_">>

(***************************************************************************)
(* The builder: where an Item is filed.                                    *)
(***************************************************************************)
FiledUnder(items, category, subcategory) ==
  \A i \in 1..Len(items) :
    items[i].category = category /\ items[i].subcategory = subcategory

\* C24: after every event an Item stored in a top-level node carries that
\* node's title as category and no subcategory, and an Item stored in a
\* second-level node carries the parent's title as category and the node's
\* title as subcategory; a non-empty H2 opens a new top-level category and
\* clears the current subcategory, so that the items of a following list are
\* stored in the new top-level node itself.
C24_ItemsCarryTheirPath ==
  /\ [](\A c \in 1..Len(tree) :
          /\ FiledUnder(tree[c].items, tree[c].title, Undefined)
          /\ \A k \in 1..Len(tree[c].children) :
               FiledUnder(tree[c].children[k].items, tree[c].title, tree[c].children[k].title))
  /\ [][(nodesSeen' = nodesSeen + 1 /\ node'.type = "heading" /\ node'.depth = 2
           /\ Trim(JoinText(node'.children)) # <<>>) =>
          (Len(tree') = Len(tree) + 1 /\ currentCategory' = Len(tree')
             /\ currentSubcategory' = 0)]_vars
  /\ [][(ListEvent /\ currentSubcategory = 0) =>
          /\ tree'[currentCategory].items = tree[currentCategory].items \o Added(list, list')
          /\ tree'[currentCategory].children = tree[currentCategory].children]_vars

C24_Witness ==
  /\ Len(tree) = 2 /\ currentCategory = 2 /\ currentSubcategory = 0
  /\ Len(tree[1].children) = 1 /\ tree[1].children[1].title = <<"b">>
  /\ tree[2].items # <<>> /\ tree[2].items[1].subcategory = Undefined
  /\ tree[2].items[1].category = <<"a", "-", "b">>

(***************************************************************************)
(* The sync cycle: what it leaves in the store.                            *)
(***************************************************************************)
\* C25: when a sync cycle has ended with stored=true, getCatalog on the store
\* as the cycle left it returns a catalog (not null), whatever document was
\* parsed, one without a level-2 heading included; so a following cycle that
\* is told "not modified" does not have to refetch.
C25_StoredCatalogReadable ==
  (pc[1] = "done" /\ response[1] = StoredResponse) => HasCatalog(kvCatalog)

Failed(p) == pc[p] = "done" /\ response[p].status = 500 /\ ~response[p].ok

\* C26 as stated: whenever a sync cycle answers with an error (ok=false,
\* status 500) the store is as the cycle found it, whichever call threw.
C26_ErrorLeavesStore ==
  \A p \in Procs : Failed(p) => StoreUntouched(p)

\* C26: when a sync cycle answers with an error (ok=false, status 500) the
\* stored fingerprint is the one the cycle found; the persisted catalog is the
\* one the cycle found as well when the fetch, getCatalog, the parse or
\* persistCatalog threw, and the catalog parsed in this cycle when storeEtag
\* threw.
C26_ErrorLeavesFingerprint ==
  \A p \in Procs :
    Failed(p) =>
      /\ kvEtag = atStart[p].etag
      /\ calls[p].threw # "storeEtag" => kvCatalog = atStart[p].catalog
      /\ calls[p].threw = "storeEtag" =>
           /\ calls[p].persistCatalog = 1
           /\ kvCatalog = <<StringifyCatalog(local[p].catalog[1])>>

C26_Witness ==
  /\ Failed(1) /\ calls[1].threw = "storeEtag"
  /\ kvCatalog # atStart[1].catalog /\ kvEtag = atStart[1].etag
  /\ HasCatalog(atStart[1].catalog)

(***************************************************************************)
(* searchItems: blank queries and the limit.                               *)
(***************************************************************************)
Blank(q) == q # <<>> /\ \A i \in 1..Len(q) : IsSpace(q[i])

\* C27: a query made of whitespace only is treated like the empty query:
\* search returns an empty sequence for it on every catalog.
C27_BlankQueryFindsNothing ==
  (call = "searchItems" /\ Blank(query)) => results = <<>>

\* C30: for every catalog, every non-empty query and every limit >= 0, 0
\* included, search returns at most limit Items.
C30_AtMostLimit ==
  (call = "searchItems" /\ query # <<>> /\ limit >= 0) => Len(results) <= limit

(***************************************************************************)
(* The builder: slugs.                                                     *)
(***************************************************************************)
FirstOfItsSlug(cats, i) == \A j \in 1..(i - 1) : cats[j].slug # cats[i].slug

\* C28: in the builder's tree no second-level Category has the slug of a
\* top-level Category or of a second-level Category under another parent; so
\* looking a node's slug up (first match, depth first) finds that node, unless
\* an earlier sibling of the node or of its parent bears the same slug.
C28_SlugsIdentifyNodes ==
  /\ \A c, d \in 1..Len(tree) : \A k \in 1..Len(tree[c].children) :
       /\ tree[c].children[k].slug # tree[d].slug
       /\ \A j \in 1..Len(tree[d].children) :
            d # c => tree[c].children[k].slug # tree[d].children[j].slug
  /\ \A c \in 1..Len(tree) :
       FirstOfItsSlug(tree, c) =>
         /\ findCategoryPath(tree, tree[c].slug) = <<c>>
         /\ \A k \in 1..Len(tree[c].children) :
              FirstOfItsSlug(tree[c].children, k) =>
                findCategoryPath(tree, tree[c].children[k].slug) = <<c, k>>

\* C29: every Category of the builder's tree, top-level or second-level, has a
\* non-empty slug, whatever its (non-empty) title is made of.
C29_SlugsNonEmpty ==
  \A c \in 1..Len(tree) :
    /\ tree[c].title # <<>> /\ tree[c].slug # <<>>
    /\ \A k \in 1..Len(tree[c].children) :
         tree[c].children[k].title # <<>> /\ tree[c].children[k].slug # <<>>

====
